---- MODULE Spec2Model ----
(***************************************************************************)
(* Model of eventually::optional (src/eventually/src/optional.rs): the two *)
(* adapters AsAggregate and AsHandler, which implement the foundation      *)
(* contracts apply / handle by dispatching on an Option state to the       *)
(* split operations apply_first / apply_next and handle_first /            *)
(* handle_next of a variant implementation.                                *)
(*                                                                         *)
(* The variant implementation is the generic parameter of the adapters:    *)
(* A (impl<A> aggregate::Aggregate for AsAggregate<A>) and H               *)
(* (impl<H> command::Handler for AsHandler<H>).  It is an input of the     *)
(* model, chosen in the initial state.  A and H hold what the methods of   *)
(* the implementation return at present: an implementation whose methods   *)
(* are functions of their arguments keeps them for ever, one that keeps    *)
(* state of its own between invocations (SpecTwice) can change them.       *)
(***************************************************************************)
EXTENDS Naturals, Sequences, FiniteSets, TLC

VARIABLES
    A,        \* the optional::Aggregate implementation adapted by AsAggregate<A>
    H,        \* the optional::CommandHandler implementation wrapped by AsHandler<H>
    state,    \* state[id]: the Option<State> the caller holds for entity id
    log,      \* log[id]: the events applied so far to entity id, in order
    inflight, \* inflight[id]: the handle call (future) the caller holds for id
    last,     \* observation of the most recent apply call or cancelled handle call
    ref       \* an earlier observation of an apply call, kept for comparison

vars == <<A, H, state, log, inflight, last, ref>>

\* Longest event sequence folded for one entity.
MaxLog == 2

\* Most calls of apply made in a row on chosen arguments.
MaxCalls == 2

----------------------------------------------------------------------------
(* Value domains of the associated types.                                  *)

Entities == {"a1", "a2"}
States == {"s1", "s2"}
Events == {"e1", "e2"}
Commands == {"c1", "c2"}
ApplyErrors == {"AE1", "AE2"}
HandleErrors == {"HE1", "HE2"}

\* Option<T>
None == [tag |-> "None"]
Some(v) == [tag |-> "Some", val |-> v]
\* Result<T, E>
Ok(v) == [tag |-> "Ok", val |-> v]
Err(e) == [tag |-> "Err", val |-> e]

OptionStates == {None} \cup {Some(s) : s \in States}
ApplyResults == {Ok(s) : s \in States} \cup {Err(x) : x \in ApplyErrors}
HandleResults == {Ok(e) : e \in Events} \cup {Err(x) : x \in HandleErrors}

\* No result: what a call that has not returned (or never will) has produced.
NoResult == [tag |-> "NoResult"]

\* A binding whose value has been moved out of it: it cannot be read again.
Moved == [tag |-> "Moved"]

----------------------------------------------------------------------------
(* Implementations of the split traits: the inputs the adapters are        *)
(* generic over.  An implementation is a pair of tables, one per trait     *)
(* method, giving the Result the method returns for each argument.  An     *)
(* aggregate also says whether its State type is Copy: the trait puts no   *)
(* bound on State, so both kinds of implementation exist.                  *)

\* Every implementation of optional::Aggregate over the domains above.
AllAggregates ==
    [first : [Events -> ApplyResults],
     next  : [States \X Events -> ApplyResults],
     copy  : BOOLEAN]

\* Every implementation of optional::CommandHandler over the domains above.
AllHandlers ==
    [first : [Commands -> HandleResults],
     next  : [States \X Commands -> HandleResults]]

\* The aggregate of the AsAggregate doc example: apply_first returns a fresh
\* state for any event, apply_next returns the state it was given.
SomeAggregate ==
    [first |-> [e \in Events |-> Ok("s1")],
     next  |-> [p \in States \X Events |-> Ok(p[1])],
     copy  |-> FALSE]

\* An aggregate that validates: e1 creates, e2 updates; e2 cannot create,
\* e1 cannot be applied to s2, e2 cannot be applied twice.  Its State is a
\* field-less enum that is Copy.
StrictAggregate ==
    [first |-> [e \in Events |-> IF e = "e1" THEN Ok("s1") ELSE Err("AE1")],
     next  |-> [p \in States \X Events |->
                  CASE p = <<"s1", "e1">> -> Ok("s1")
                    [] p = <<"s1", "e2">> -> Ok("s2")
                    [] p = <<"s2", "e1">> -> Err("AE1")
                    [] p = <<"s2", "e2">> -> Err("AE2")],
     copy  |-> TRUE]

\* An aggregate whose first event may create either state.
FlipAggregate ==
    [first |-> [e \in Events |-> IF e = "e1" THEN Ok("s2") ELSE Ok("s1")],
     next  |-> [p \in States \X Events |->
                  CASE p = <<"s1", "e1">> -> Ok("s2")
                    [] p = <<"s1", "e2">> -> Err("AE2")
                    [] p = <<"s2", "e1">> -> Ok("s1")
                    [] p = <<"s2", "e2">> -> Ok("s2")],
     copy  |-> FALSE]

Aggregates == {SomeAggregate, StrictAggregate, FlipAggregate}

\* A handler that requires the entity to exist for c2 and not to exist for c1.
StrictHandler ==
    [first |-> [c \in Commands |-> IF c = "c1" THEN Ok("e1") ELSE Err("HE1")],
     next  |-> [p \in States \X Commands |->
                  CASE p = <<"s1", "c1">> -> Err("HE2")
                    [] p = <<"s1", "c2">> -> Ok("e2")
                    [] p = <<"s2", "c1">> -> Err("HE1")
                    [] p = <<"s2", "c2">> -> Ok("e1")]]

\* A handler that accepts every command, the event depending on the state.
EchoHandler ==
    [first |-> [c \in Commands |-> IF c = "c1" THEN Ok("e2") ELSE Ok("e1")],
     next  |-> [p \in States \X Commands |->
                  IF p[1] = "s1" THEN Ok("e1") ELSE
                  IF p[2] = "c1" THEN Ok("e2") ELSE Err("HE2")]]

Handlers == {StrictHandler, EchoHandler}

----------------------------------------------------------------------------
(* optional::Aggregate: the split state-transition operations.  Each       *)
(* returns the invocation it is (operation and arguments) together with    *)
(* the Result the implementation A gives.                                  *)

apply_first(event) ==
    [call |-> [op |-> "apply_first", args |-> <<event>>],
     ret  |-> A.first[event]]

apply_next(st, event) ==
    [call |-> [op |-> "apply_next", args |-> <<st, event>>],
     ret  |-> A.next[<<st, event>>]]

\* apply with the absent branch bootstrapping and then continuing with the
\* same event: apply_next is invoked on an absent input.
apply_first_then_next(st, event) ==
    IF st.tag = "None"
    THEN LET r1 == apply_first(event)
             r2 == apply_next(r1.ret.val, event)
         IN  IF r1.ret.tag = "Err"
             THEN [calls |-> <<r1.call>>, ret |-> r1.ret]
             ELSE [calls |-> <<r1.call, r2.call>>,
                   ret |-> IF r2.ret.tag = "Err" THEN r2.ret
                           ELSE Ok(Some(r2.ret.val))]
    ELSE LET r == apply_next(st.val, event)
         IN  [calls |-> <<r.call>>,
              ret |-> IF r.ret.tag = "Err" THEN r.ret
                      ELSE Ok(Some(r.ret.val))]

\* apply that ignores a present state and bootstraps again.
apply_always_first(st, event) ==
    LET r == apply_first(event)
    IN  [calls |-> <<r.call>>,
         ret   |-> IF r.ret.tag = "Err" THEN r.ret ELSE Ok(Some(r.ret.val))]

\* apply that swallows the variant's error and keeps the previous state.
apply_suppress(st, event) ==
    LET r == CASE st.tag = "None" -> apply_first(event)
               [] st.tag = "Some" -> apply_next(st.val, event)
    IN  [calls |-> <<r.call>>,
         ret   |-> IF r.ret.tag = "Err" THEN Ok(st) ELSE Ok(Some(r.ret.val))]

\* apply that returns an absent state after a continuation.
apply_drops_state(st, event) ==
    LET r == CASE st.tag = "None" -> apply_first(event)
               [] st.tag = "Some" -> apply_next(st.val, event)
    IN  [calls |-> <<r.call>>,
         ret   |-> IF r.ret.tag = "Err" THEN r.ret
                   ELSE IF st.tag = "Some" THEN Ok(None)
                   ELSE Ok(Some(r.ret.val))]

\* apply that, when apply_next fails, tries to bootstrap from the event.
apply_fallback_first(st, event) ==
    LET r == CASE st.tag = "None" -> apply_first(event)
               [] st.tag = "Some" -> apply_next(st.val, event)
        r2 == apply_first(event)
    IN  IF st.tag = "Some" /\ r.ret.tag = "Err"
        THEN [calls |-> <<r.call, r2.call>>,
              ret |-> IF r2.ret.tag = "Err" THEN r2.ret
                      ELSE Ok(Some(r2.ret.val))]
        ELSE [calls |-> <<r.call>>,
              ret |-> IF r.ret.tag = "Err" THEN r.ret
                      ELSE Ok(Some(r.ret.val))]

\* apply that answers a failed bootstrap with a default state.
apply_default_on_error(st, event) ==
    LET r == CASE st.tag = "None" -> apply_first(event)
               [] st.tag = "Some" -> apply_next(st.val, event)
    IN  [calls |-> <<r.call>>,
         ret   |-> IF r.ret.tag = "Err"
                   THEN (IF st.tag = "None" THEN Ok(Some("s1")) ELSE r.ret)
                   ELSE Ok(Some(r.ret.val))]

\* apply that applies the event to a present state and again to the result.
apply_next_twice(st, event) ==
    IF st.tag = "None"
    THEN LET r == apply_first(event)
         IN  [calls |-> <<r.call>>,
              ret |-> IF r.ret.tag = "Err" THEN r.ret
                      ELSE Ok(Some(r.ret.val))]
    ELSE LET r1 == apply_next(st.val, event)
             r2 == apply_next(r1.ret.val, event)
         IN  IF r1.ret.tag = "Err"
             THEN [calls |-> <<r1.call>>, ret |-> r1.ret]
             ELSE [calls |-> <<r1.call, r2.call>>,
                   ret |-> IF r2.ret.tag = "Err" THEN r2.ret
                           ELSE Ok(Some(r2.ret.val))]

(* AsAggregate::apply:                                                     *)
(*   Ok(Some(match state {                                                 *)
(*       None => A::apply_first(event)?,                                   *)
(*       Some(state) => A::apply_next(state, event)?,                      *)
(*   }))                                                                   *)
(* `?` returns the Err of the variant as is (Self::Error = A::Error).      *)
(* calls is the sequence of variant invocations made, ret what is returned.*)
apply(st, event) ==
    LET r == CASE st.tag = "None" -> apply_first(event)
               [] st.tag = "Some" -> apply_next(st.val, event)
    IN  [calls |-> <<r.call>>,
         ret   |-> IF r.ret.tag = "Err" THEN r.ret ELSE Ok(Some(r.ret.val))]

----------------------------------------------------------------------------
(* optional::CommandHandler: the split command-handling operations.  Each  *)
(* is an async fn: calling it makes a future whose output is the Result    *)
(* the implementation H gives.                                             *)

handle_first(command) ==
    [call |-> [op |-> "handle_first", args |-> <<command>>],
     ret  |-> H.first[command]]

handle_next(st, command) ==
    [call |-> [op |-> "handle_next", args |-> <<st, command>>],
     ret  |-> H.next[<<st, command>>]]

\* handle that ignores a present state and handles the command as the first.
handle_always_first(st, command) ==
    LET r == handle_first(command)
    IN  [calls |-> <<r.call>>, ret |-> r.ret]

\* handle that translates every error of the variant into one error value.
handle_translate(st, command) ==
    LET r == CASE st.tag = "None" -> handle_first(command)
               [] st.tag = "Some" -> handle_next(st.val, command)
    IN  [calls |-> <<r.call>>,
         ret   |-> IF r.ret.tag = "Err" THEN Err("HE1") ELSE r.ret]

\* handle that gives handle_next a fixed state in place of the one it holds.
handle_default_state(st, command) ==
    LET r == CASE st.tag = "None" -> handle_first(command)
               [] st.tag = "Some" -> handle_next("s1", command)
    IN  [calls |-> <<r.call>>, ret |-> r.ret]

(* AsHandler::handle:                                                      *)
(*   match state {                                                         *)
(*       None => self.0.handle_first(command),                             *)
(*       Some(state) => self.0.handle_next(state, command),                *)
(*   }.await                                                               *)
(* The output of the awaited future is the output of handle.               *)
handle(st, command) ==
    LET r == CASE st.tag = "None" -> handle_first(command)
               [] st.tag = "Some" -> handle_next(st.val, command)
    IN  [calls |-> <<r.call>>, ret |-> r.ret]

----------------------------------------------------------------------------
(* The caller of the two adapters.                                         *)

\* What the variant implementation returns at present for the operation that
\* an Option state and an event select.
Variant(st, event) ==
    IF st.tag = "None" THEN A.first[event] ELSE A.next[<<st.val, event>>]

\* A call of apply that leaves the caller's binding of the state readable
\* for every State type, as if the state were passed by reference.
ApplyCall_borrows(st, event) ==
    LET r == apply(st, event)
    IN  [calls |-> r.calls, ret |-> r.ret, arg |-> st]

\* A call apply(state, event) from a binding `state` of the caller.  apply
\* takes state: Self::State by value.  When A::State is Copy the call gets a
\* copy and the binding still holds the state passed, whatever the call
\* returns; otherwise the binding is moved into the call and is Moved
\* afterwards, and as an Err carries the error only, the value comes back to
\* the caller in no form.
ApplyCall(st, event) ==
    LET r == apply(st, event)
    IN  [calls |-> r.calls, ret |-> r.ret,
         arg |-> IF A.copy THEN st ELSE Moved]

\* The fold of a sequence of events through AsAggregate::apply, from state
\* st: each event is applied to the state the previous one gave, and the
\* first Err ends the fold.  calls are the variant invocations made, in order.
RECURSIVE fold(_, _)
fold(st, events) ==
    IF events = <<>>
    THEN [calls |-> <<>>, ret |-> Ok(st)]
    ELSE LET r == apply(st, Head(events))
         IN  IF r.ret.tag = "Err"
             THEN r
             ELSE LET rest == fold(r.ret.val, Tail(events))
                  IN  [calls |-> r.calls \o rest.calls, ret |-> rest.ret]

\* The slot of an entity with no handle call in flight.
Idle == [pc |-> "idle", state |-> None, log |-> <<>>, cmd |-> "-",
         calls |-> <<>>, ret |-> NoResult]

NoCall == [op |-> "none", id |-> "-", seq |-> 0, state |-> None, log |-> <<>>,
           input |-> "-", calls |-> <<>>, ret |-> NoResult,
           arg |-> None, variant |-> NoResult]

\* The state of entity id loaded again: the fold of its persisted events
\* from None (nothing is held when that fold fails).
Load(id) ==
    LET f == fold(None, log[id])
    IN  IF f.ret.tag = "Ok" THEN f.ret.val ELSE Moved

InitCaller ==
    /\ state = [id \in Entities |-> None]
    /\ log = [id \in Entities |-> <<>>]
    /\ inflight = [id \in Entities |-> Idle]
    /\ last = NoCall
    /\ ref = NoCall

Init ==
    /\ A \in Aggregates
    /\ H \in Handlers
    /\ InitCaller

\* One call apply(state[id], event) by the caller, which hands its state to
\* the call.  On Ok it keeps the state returned and the event; on Err the
\* state it handed over is gone, the event is not kept, and it loads the
\* state again from the events it has.
ApplyStep(id, event) ==
    LET r == ApplyCall(state[id], event)
        ok == r.ret.tag = "Ok"
    IN  /\ state' = [state EXCEPT ![id] = IF ok THEN r.ret.val ELSE Load(id)]
        /\ log' = [log EXCEPT ![id] = IF ok THEN Append(@, event) ELSE @]
        /\ last' = [op |-> "apply", id |-> id, seq |-> 0, state |-> state[id],
                    log |-> log[id], input |-> event, calls |-> r.calls,
                    ret |-> r.ret, arg |-> r.arg,
                    variant |-> Variant(state[id], event)]

\* A fold step: an event read from the store is applied to the entity.
Apply(id, event) ==
    /\ inflight[id].pc = "idle"
    /\ Len(log[id]) < MaxLog
    /\ ApplyStep(id, event)
    /\ UNCHANGED <<A, H, inflight, ref>>

\* A call made with the state the caller held before its latest apply.
HandleCall_stale(id, command) ==
    /\ inflight[id].pc = "idle"
    /\ inflight' = [inflight EXCEPT ![id] =
                       [pc |-> "created",
                        state |-> IF last.op = "apply" /\ last.id = id
                                  THEN last.state ELSE state[id],
                        log |-> log[id], cmd |-> command,
                        calls |-> <<>>, ret |-> NoResult]]
    /\ UNCHANGED <<A, H, state, log, last, ref>>

\* handle(&state, command) is called: the future is made, nothing has run.
HandleCall(id, command) ==
    /\ inflight[id].pc = "idle"
    /\ inflight' = [inflight EXCEPT ![id] =
                       [pc |-> "created", state |-> state[id],
                        log |-> log[id], cmd |-> command,
                        calls |-> <<>>, ret |-> NoResult]]
    /\ UNCHANGED <<A, H, state, log, last, ref>>

\* A first poll that already shows the output of the pending operation.
HandlePoll_exposes(id) ==
    /\ inflight[id].pc = "created"
    /\ LET f == inflight[id]
           r == handle(f.state, f.cmd)
       IN  inflight' = [inflight EXCEPT ![id] =
                          [f EXCEPT !.pc = "awaiting", !.calls = r.calls,
                                    !.ret = r.ret]]
    /\ UNCHANGED <<A, H, state, log, last, ref>>

\* First poll: the match picks and calls the variant operation, whose
\* future is pending; handle is suspended at .await.
HandlePoll(id) ==
    /\ inflight[id].pc = "created"
    /\ LET f == inflight[id]
           r == handle(f.state, f.cmd)
       IN  inflight' = [inflight EXCEPT ![id] =
                          [f EXCEPT !.pc = "awaiting", !.calls = r.calls]]
    /\ UNCHANGED <<A, H, state, log, last, ref>>

\* handle that folds the event it produced into the state it was lent.
HandleReady_mutates(id) ==
    /\ inflight[id].pc \in {"created", "awaiting"}
    /\ LET f == inflight[id]
           r == handle(f.state, f.cmd)
           n == apply(f.state, r.ret.val)
       IN  /\ inflight' = [inflight EXCEPT ![id] =
                             [f EXCEPT !.pc = "returned", !.calls = r.calls,
                                       !.ret = r.ret]]
           /\ state' = [state EXCEPT ![id] =
                          IF r.ret.tag = "Ok" /\ n.ret.tag = "Ok"
                          THEN n.ret.val ELSE @]
    /\ UNCHANGED <<A, H, log, last, ref>>

\* A poll on which the variant's future is ready: handle returns its output.
HandleReady(id) ==
    /\ inflight[id].pc \in {"created", "awaiting"}
    /\ LET f == inflight[id]
           r == handle(f.state, f.cmd)
       IN  inflight' = [inflight EXCEPT ![id] =
                          [f EXCEPT !.pc = "returned", !.calls = r.calls,
                                    !.ret = r.ret]]
    /\ UNCHANGED <<A, H, state, log, last, ref>>

\* A drop that lets the suspended operation finish and records its event.
HandleCancel_commits(id) ==
    /\ inflight[id].pc \in {"created", "awaiting"}
    /\ inflight' = [inflight EXCEPT ![id] = Idle]
    /\ last' = [op |-> "cancel", id |-> id, seq |-> 0,
                state |-> inflight[id].state,
                log |-> inflight[id].log, input |-> inflight[id].cmd,
                calls |-> inflight[id].calls, ret |-> NoResult]
    /\ LET r == handle(inflight[id].state, inflight[id].cmd)
       IN  log' = [log EXCEPT ![id] =
                     IF inflight[id].pc = "awaiting" /\ r.ret.tag = "Ok"
                     THEN Append(@, r.ret.val) ELSE @]
    /\ UNCHANGED <<A, H, state, ref>>

\* The future is dropped before it has returned.
HandleCancel(id) ==
    /\ inflight[id].pc \in {"created", "awaiting"}
    /\ inflight' = [inflight EXCEPT ![id] = Idle]
    /\ last' = [op |-> "cancel", id |-> id, seq |-> 0,
                state |-> inflight[id].state,
                log |-> inflight[id].log, input |-> inflight[id].cmd,
                calls |-> inflight[id].calls, ret |-> NoResult]
    /\ UNCHANGED <<A, H, state, log, ref>>

\* The caller persists the event handle returned and folds it.
Persist(id) ==
    /\ inflight[id].pc = "returned"
    /\ inflight[id].ret.tag = "Ok"
    /\ Len(log[id]) < MaxLog
    /\ ApplyStep(id, inflight[id].ret.val)
    /\ inflight' = [inflight EXCEPT ![id] = Idle]
    /\ UNCHANGED <<A, H, ref>>

\* The caller takes the result of a returned call without persisting it
\* (an error, or an event it gives up).
Discard(id) ==
    /\ inflight[id].pc = "returned"
    /\ inflight' = [inflight EXCEPT ![id] = Idle]
    /\ UNCHANGED <<A, H, state, log, last, ref>>

Next ==
    \/ \E id \in Entities, event \in Events : Apply(id, event)
    \/ \E id \in Entities, command \in Commands : HandleCall(id, command)
    \/ \E id \in Entities : HandlePoll(id)
    \/ \E id \in Entities : HandleReady(id)
    \/ \E id \in Entities : HandleCancel(id)
    \/ \E id \in Entities : Persist(id)
    \/ \E id \in Entities : Discard(id)

Spec == Init /\ [][Next]_vars

----------------------------------------------------------------------------
(* The caller over every implementation of one of the two traits: folds   *)
(* of stored events for every aggregate, the whole cycle on one entity for *)
(* every handler.                                                          *)

NextFold == \E id \in Entities, event \in Events : Apply(id, event)

NextOne ==
    \/ \E event \in Events : Apply("a1", event)
    \/ \E command \in Commands : HandleCall("a1", command)
    \/ HandlePoll("a1")
    \/ HandleReady("a1")
    \/ HandleCancel("a1")
    \/ Persist("a1")
    \/ Discard("a1")

InitApply ==
    /\ A \in AllAggregates
    /\ H = EchoHandler
    /\ InitCaller

SpecApply == InitApply /\ [][NextFold]_vars

InitHandle ==
    /\ A = FlipAggregate
    /\ H \in AllHandlers
    /\ InitCaller

SpecHandle == InitHandle /\ [][NextOne]_vars

----------------------------------------------------------------------------
(* apply called repeatedly: calls with any Option state and any event, the *)
(* results only observed, and an observation optionally kept to compare a  *)
(* later call against.  apply_first and apply_next are associated          *)
(* functions of the implementation, free to read and write state of its    *)
(* own (a static counter): here the implementation may be one that counts  *)
(* its invocations and refuses every one after some count.                 *)

\* The implementation impl once it has counted enough invocations: it
\* refuses every event.
Refusing(impl) ==
    [impl EXCEPT !.first = [e \in Events |-> Err("AE1")],
                 !.next  = [p \in States \X Events |-> Err("AE1")]]

\* What the implementation can return after one more invocation: the same as
\* before (its counter, if any, is below its limit) or only refusals.
AfterInvocation(impl) == {impl, Refusing(impl)}

\* The seq-th call of apply, on arguments st and event.
Call(st, event) ==
    /\ last.seq < MaxCalls
    /\ LET r == ApplyCall(st, event)
       IN  last' = [op |-> "apply", id |-> "-", seq |-> last.seq + 1,
                    state |-> st, log |-> <<>>, input |-> event,
                    calls |-> r.calls, ret |-> r.ret, arg |-> r.arg,
                    variant |-> Variant(st, event)]
    /\ A' \in AfterInvocation(A)
    /\ UNCHANGED <<H, state, log, inflight, ref>>

\* The caller keeps what the call just made returned.
Remember ==
    /\ last.op = "apply"
    /\ ref.op = "none"
    /\ ref' = last
    /\ UNCHANGED <<A, H, state, log, inflight, last>>

NextTwice ==
    \/ \E st \in OptionStates, event \in Events : Call(st, event)
    \/ Remember

SpecTwice == InitApply /\ [][NextTwice]_vars

----------------------------------------------------------------------------
(* Properties of AsAggregate::apply.                                       *)

\* The result the variant implementation gives for the inputs of the apply
\* call observed in last.
VariantOfLast ==
    IF last.state.tag = "None"
    THEN A.first[last.input]
    ELSE A.next[<<last.state.val, last.input>>]

\* C1: every apply call on an absent state has invoked apply_first(e) once
\* and nothing else, and when apply_first(e) is Ok(s) it returned Ok(Some(s));
\* the same holds of apply(None, e) for every event e.
C1_AbsentRoutesToApplyFirst ==
    /\ (last.op = "apply" /\ last.state.tag = "None") =>
          /\ last.calls = <<[op |-> "apply_first", args |-> <<last.input>>]>>
          /\ A.first[last.input].tag = "Ok" =>
                /\ last.ret.tag = "Ok"
                /\ last.ret.val.tag = "Some"
                /\ last.ret.val.val = A.first[last.input].val
    /\ \A e \in Events :
          LET r == apply(None, e)
          IN  /\ Len(r.calls) = 1
              /\ r.calls[1].op = "apply_first"
              /\ r.calls[1].args = <<e>>
              /\ A.first[e].tag = "Ok" =>
                    /\ r.ret.tag = "Ok"
                    /\ r.ret.val.tag = "Some"
                    /\ r.ret.val.val = A.first[e].val

\* An apply call on an absent state has returned Ok.
C1_Witness ==
    /\ last.op = "apply"
    /\ last.state.tag = "None"
    /\ last.ret.tag = "Ok"
    /\ state[last.id] = last.ret.val
    /\ log[last.id] = <<last.input>>

\* C2: every apply call on a present state Some(s) has invoked
\* apply_next(s, e) once and nothing else, and when apply_next(s, e) is
\* Ok(s2) it returned Ok(Some(s2)); the same holds of apply(Some(s), e) for
\* every state s and event e.
C2_PresentRoutesToApplyNext ==
    /\ (last.op = "apply" /\ last.state.tag = "Some") =>
          /\ last.calls = <<[op |-> "apply_next",
                             args |-> <<last.state.val, last.input>>]>>
          /\ A.next[<<last.state.val, last.input>>].tag = "Ok" =>
                /\ last.ret.tag = "Ok"
                /\ last.ret.val.tag = "Some"
                /\ last.ret.val.val = A.next[<<last.state.val, last.input>>].val
    /\ \A s \in States, e \in Events :
          LET r == apply(Some(s), e)
          IN  /\ Len(r.calls) = 1
              /\ r.calls[1].op = "apply_next"
              /\ r.calls[1].args = <<s, e>>
              /\ A.next[<<s, e>>].tag = "Ok" =>
                    /\ r.ret.tag = "Ok"
                    /\ r.ret.val.tag = "Some"
                    /\ r.ret.val.val = A.next[<<s, e>>].val

\* An apply call on a present state has returned Ok with a changed state.
C2_Witness ==
    /\ last.op = "apply"
    /\ last.state.tag = "Some"
    /\ last.ret.tag = "Ok"
    /\ last.ret.val # last.state
    /\ state[last.id] = last.ret.val
    /\ Len(log[last.id]) = 2

\* C3: every apply call whose variant operation fails with error E has
\* returned Err(E), that same E, after invoking the variant operation once.
C3_ApplyErrorTransparent ==
    (last.op = "apply" /\ VariantOfLast.tag = "Err") =>
        /\ last.ret.tag = "Err"
        /\ last.ret.val = VariantOfLast.val
        /\ Len(last.calls) = 1

\* An apply call on a present state has failed with the second error value.
C3_Witness ==
    /\ last.op = "apply"
    /\ last.state.tag = "Some"
    /\ last.ret = Err("AE2")

\* C6: an apply call that returns Ok returns a present state, and no step
\* takes the state of an entity from present to absent.
C6_Monotonic ==
    [][ /\ (last'.op = "apply" /\ last'.ret.tag = "Ok") =>
              last'.ret.val.tag = "Some"
        /\ \A id \in Entities :
              state[id].tag = "Some" => state'[id].tag = "Some" ]_vars

\* A present state has been through a further successful transition while
\* the other entity is still absent.
C6_Witness ==
    /\ last.op = "apply"
    /\ last.id = "a1"
    /\ last.state.tag = "Some"
    /\ last.ret.tag = "Ok"
    /\ state["a1"].tag = "Some"
    /\ Len(log["a1"]) = 2
    /\ state["a2"].tag = "None"

----------------------------------------------------------------------------
(* Properties of AsHandler::handle.                                        *)

\* The handle calls that have run their match: suspended at .await or returned.
Dispatched(id) == inflight[id].pc \in {"awaiting", "returned"}

\* The result the variant implementation gives for the inputs of the handle
\* call in flight for id.
VariantOfCall(id) ==
    IF inflight[id].state.tag = "None"
    THEN H.first[inflight[id].cmd]
    ELSE H.next[<<inflight[id].state.val, inflight[id].cmd>>]

\* C4: a handle call has invoked no variant operation before its first poll
\* and exactly one after it: handle_first(c) when the state is absent,
\* handle_next(s, c) with the unwrapped s when it is Some(s); the result it
\* returns is the result of that operation, so on success the same event.
C4_HandleRoutesByState ==
    \A id \in Entities :
        LET f == inflight[id]
        IN  /\ f.pc \in {"idle", "created"} => f.calls = <<>>
            /\ (Dispatched(id) /\ f.state.tag = "None") =>
                  f.calls = <<[op |-> "handle_first", args |-> <<f.cmd>>]>>
            /\ (Dispatched(id) /\ f.state.tag = "Some") =>
                  f.calls = <<[op |-> "handle_next",
                               args |-> <<f.state.val, f.cmd>>]>>
            /\ (f.pc = "returned" /\ VariantOfCall(id).tag = "Ok") =>
                  f.ret = VariantOfCall(id)

\* A handle call on a present state has returned an event.
C4_Witness ==
    /\ inflight["a1"].pc = "returned"
    /\ inflight["a1"].state.tag = "Some"
    /\ inflight["a1"].ret.tag = "Ok"

\* C5: a handle call whose variant operation fails with error E has returned
\* Err(E), that same E, after invoking the variant operation once.
C5_HandleErrorTransparent ==
    \A id \in Entities :
        (inflight[id].pc = "returned" /\ VariantOfCall(id).tag = "Err") =>
            /\ inflight[id].ret.tag = "Err"
            /\ inflight[id].ret.val = VariantOfCall(id).val
            /\ Len(inflight[id].calls) = 1

\* A handle call on a present state has returned the second error value.
C5_Witness ==
    /\ inflight["a1"].pc = "returned"
    /\ inflight["a1"].state.tag = "Some"
    /\ inflight["a1"].ret = Err("HE2")

\* C8: while a handle call is in flight or has returned, the state and the
\* events of its entity are those the call was given, and what it returns is
\* an event or an error; the state of an entity changes only in an apply
\* call for that entity, and after a handle call only in the apply of the
\* event that call returned.
C8_HandleLeavesState ==
    /\ [](\A id \in Entities :
            inflight[id].pc # "idle" =>
                /\ state[id] = inflight[id].state
                /\ log[id] = inflight[id].log
                /\ inflight[id].pc = "returned" =>
                      inflight[id].ret \in HandleResults)
    /\ [][\A id \in Entities :
            state'[id] # state[id] =>
                /\ last'.op = "apply"
                /\ last'.id = id
                /\ last'.ret.tag = "Ok"
                /\ last'.ret.val = state'[id]
                /\ inflight[id].pc \in {"idle", "returned"}
                /\ inflight[id].pc = "returned" =>
                      /\ inflight[id].ret.tag = "Ok"
                      /\ last'.input = inflight[id].ret.val]_vars

\* handle_next has returned an event for an entity whose state is present,
\* and the state is still the one the call was given.
C8_Witness ==
    /\ inflight["a1"].pc = "returned"
    /\ inflight["a1"].calls # <<>>
    /\ inflight["a1"].calls[1].op = "handle_next"
    /\ inflight["a1"].ret.tag = "Ok"
    /\ state["a1"] = inflight["a1"].state
    /\ state["a1"].tag = "Some"

\* C10: a step that drops a handle call that has not returned changes
\* neither the state nor the events of any entity and leaves no result; after
\* it the entity's state and events are those the call was started with.
C10_CancelNoEffect ==
    /\ [](last.op = "cancel" =>
            /\ state[last.id] = last.state
            /\ log[last.id] = last.log
            /\ last.ret.tag = "NoResult")
    /\ [][\A id \in Entities :
            (inflight[id].pc \in {"created", "awaiting"}
                /\ inflight'[id].pc = "idle") =>
                /\ state' = state
                /\ log' = log
                /\ inflight'[id] = Idle
                /\ last'.op = "cancel"
                /\ last'.id = id
                /\ last'.ret.tag = "NoResult"]_vars

\* A handle call on a present state has been dropped while suspended at
\* .await, after its variant operation was invoked.
C10_Witness ==
    /\ last.op = "cancel"
    /\ last.id = "a1"
    /\ last.state.tag = "Some"
    /\ Len(last.calls) = 1
    /\ inflight["a1"].pc = "idle"
    /\ state["a1"] = last.state


----------------------------------------------------------------------------
(* The rename scenario: an entity that is created and then renamed.       *)

Created == [type |-> "Created"]
Renamed(name) == [type |-> "Renamed", name |-> name]
Rename(name) == [type |-> "Rename", name |-> name]
Create == [type |-> "Create"]

Names == {"x", "y"}

ScenarioEvents == {Created, Renamed(None)} \cup {Renamed(Some(n)) : n \in Names}
ScenarioCommands == {Create} \cup {Rename(n) : n \in Names}
\* {exists: true} and {exists: true, name: n}
ScenarioStates == {[exists |-> TRUE]} \cup {[exists |-> TRUE, name |-> n] : n \in Names}

\* Created makes {exists: true}; Renamed(Some(n)) sets the name of an
\* existing entity; Renamed(None) is malformed.
ScenarioAggregate ==
    [first |-> [e \in ScenarioEvents |->
                  IF e.type = "Created" THEN Ok([exists |-> TRUE])
                  ELSE Err("entity does not exist")],
     next  |-> [p \in ScenarioStates \X ScenarioEvents |->
                  IF p[2].type = "Created" THEN Err("entity already exists")
                  ELSE IF p[2].name.tag = "None" THEN Err("invalid name")
                  ELSE Ok([exists |-> TRUE, name |-> p[2].name.val])],
     copy  |-> FALSE]

\* Create is accepted for an absent entity only, Rename(n) for a present one
\* only, where it yields Renamed(n).
ScenarioHandler ==
    [first |-> [c \in ScenarioCommands |->
                  IF c.type = "Create" THEN Ok(Created)
                  ELSE Err("entity does not exist")],
     next  |-> [p \in ScenarioStates \X ScenarioCommands |->
                  IF p[2].type = "Create" THEN Err("entity already exists")
                  ELSE Ok(Renamed(Some(p[2].name)))]]

InitScenario ==
    /\ A = ScenarioAggregate
    /\ H = ScenarioHandler
    /\ InitCaller

NextScenario ==
    \/ \E id \in Entities, event \in ScenarioEvents : Apply(id, event)
    \/ \E id \in Entities, command \in ScenarioCommands : HandleCall(id, command)
    \/ \E id \in Entities : HandlePoll(id)
    \/ \E id \in Entities : HandleReady(id)
    \/ \E id \in Entities : HandleCancel(id)
    \/ \E id \in Entities : Persist(id)
    \/ \E id \in Entities : Discard(id)

SpecScenario == InitScenario /\ [][NextScenario]_vars


\* C11: in the rename scenario, through both adapters: Created applied to an
\* absent state goes through apply_first and yields {exists: true};
\* Renamed("x") applied to it goes through apply_next and yields
\* {exists: true, name: "x"}; Rename("x") handled against
\* {exists: true, name: "y"} goes through handle_next and yields Renamed("x");
\* Rename("x") handled against an absent state goes through handle_first and
\* fails with "entity does not exist".  The same holds of every such call the
\* caller has made.
C11_RenameScenario ==
    /\ LET r == apply(None, Created)
       IN  /\ r.calls = <<[op |-> "apply_first", args |-> <<Created>>]>>
           /\ r.ret.tag = "Ok"
           /\ r.ret.val = Some([exists |-> TRUE])
    /\ LET r == apply(Some([exists |-> TRUE]), Renamed(Some("x")))
       IN  /\ r.calls = <<[op |-> "apply_next",
                           args |-> <<[exists |-> TRUE], Renamed(Some("x"))>>]>>
           /\ r.ret.tag = "Ok"
           /\ r.ret.val = Some([exists |-> TRUE, name |-> "x"])
    /\ LET r == handle(Some([exists |-> TRUE, name |-> "y"]), Rename("x"))
       IN  /\ r.calls = <<[op |-> "handle_next",
                           args |-> <<[exists |-> TRUE, name |-> "y"],
                                      Rename("x")>>]>>
           /\ r.ret.tag = "Ok"
           /\ r.ret.val = Renamed(Some("x"))
    /\ LET r == handle(None, Rename("x"))
       IN  /\ r.calls = <<[op |-> "handle_first", args |-> <<Rename("x")>>]>>
           /\ r.ret.tag = "Err"
           /\ r.ret.val = "entity does not exist"
    /\ (last.op = "apply" /\ last.state.tag = "None" /\ last.input = Created) =>
          /\ state[last.id] = Some([exists |-> TRUE])
          /\ log[last.id] = <<Created>>
    /\ (/\ last.op = "apply"
        /\ last.state = Some([exists |-> TRUE])
        /\ last.input = Renamed(Some("x"))) =>
          /\ state[last.id] = Some([exists |-> TRUE, name |-> "x"])
          /\ log[last.id] = <<Created, Renamed(Some("x"))>>
    /\ \A id \in Entities :
          (inflight[id].pc = "returned" /\ inflight[id].cmd = Rename("x")) =>
              /\ inflight[id].state = Some([exists |-> TRUE, name |-> "y"]) =>
                    /\ inflight[id].calls[1].op = "handle_next"
                    /\ inflight[id].ret.tag = "Ok"
                    /\ inflight[id].ret.val = Renamed(Some("x"))
              /\ inflight[id].state.tag = "None" =>
                    /\ inflight[id].calls[1].op = "handle_first"
                    /\ inflight[id].ret.tag = "Err"
                    /\ inflight[id].ret.val = "entity does not exist"

\* Rename("x") has returned Renamed("x") for an entity created and renamed
\* "y", and has failed for an entity that is absent.
C11_Witness ==
    /\ log["a1"] = <<Created, Renamed(Some("y"))>>
    /\ state["a1"] = Some([exists |-> TRUE, name |-> "y"])
    /\ inflight["a1"].pc = "returned"
    /\ inflight["a1"].cmd = Rename("x")
    /\ inflight["a1"].ret.tag = "Ok"
    /\ state["a2"].tag = "None"
    /\ inflight["a2"].pc = "returned"
    /\ inflight["a2"].cmd = Rename("x")
    /\ inflight["a2"].ret.tag = "Err"


\* C12: a handle call has no result before it returns, also while it is
\* suspended; when it returns it has exactly one result, an event or an
\* error, from one variant invocation; and that result is never replaced by
\* another: a returned call only goes away.
C12_OneResultPerCall ==
    /\ [](\A id \in Entities :
            /\ inflight[id].pc \in {"idle", "created", "awaiting"} =>
                  inflight[id].ret.tag = "NoResult"
            /\ inflight[id].pc = "returned" =>
                  /\ inflight[id].ret.tag \in {"Ok", "Err"}
                  /\ inflight[id].ret \in HandleResults
                  /\ Len(inflight[id].calls) = 1)
    /\ [][\A id \in Entities :
            /\ inflight[id].pc = "returned" =>
                  \/ inflight'[id] = inflight[id]
                  \/ inflight'[id] = Idle
            /\ (inflight[id].pc = "awaiting" /\ inflight'[id].pc = "returned") =>
                  inflight'[id].calls = inflight[id].calls]_vars

\* One call has returned an event after having been suspended or not, while
\* another is suspended at .await with its operation invoked and no result.
C12_Witness ==
    /\ inflight["a1"].pc = "returned"
    /\ inflight["a1"].ret.tag = "Ok"
    /\ inflight["a2"].pc = "awaiting"
    /\ Len(inflight["a2"].calls) = 1
    /\ inflight["a2"].ret.tag = "NoResult"


\* C13: every entity starts absent, and a step that takes an entity out of
\* absent is an apply call for that entity on an absent state, which invoked
\* apply_first only, apply_first having succeeded with the state the entity
\* now has.  Every other step (a failed apply_first, any step of a handle
\* call, an apply for another entity) leaves an absent entity absent.
C13_OnlyApplyFirstLeavesAbsent ==
    /\ \A id \in Entities : state[id] = None
    /\ [][\A id \in Entities :
            /\ (state[id].tag = "None" /\ state'[id].tag # "None") =>
                  /\ last'.op = "apply"
                  /\ last'.id = id
                  /\ last'.state.tag = "None"
                  /\ last'.calls = <<[op |-> "apply_first",
                                      args |-> <<last'.input>>]>>
                  /\ A.first[last'.input].tag = "Ok"
                  /\ state'[id] = Some(A.first[last'.input].val)
                  /\ inflight'[id].pc = "idle"
            /\ (state[id].tag = "None" /\ inflight'[id] # inflight[id]
                  /\ inflight'[id].pc # "idle") =>
                  state'[id].tag = "None"]_vars

\* One entity has left absent by a successful apply_first; the other is still
\* absent after an apply_first that failed.
C13_Witness ==
    /\ state["a1"].tag = "Some"
    /\ Len(log["a1"]) = 1
    /\ last.op = "apply"
    /\ last.id = "a2"
    /\ last.state.tag = "None"
    /\ last.calls[1].op = "apply_first"
    /\ last.ret.tag = "Err"
    /\ state["a2"].tag = "None"


----------------------------------------------------------------------------
(* Properties of the load-fold-handle-persist cycle.                       *)

\* C14: with one handle call in flight per entity at a time and each
\* returned event persisted and folded before the next call, the state the
\* caller holds for an entity is the fold of the events persisted for it, and
\* every handle call, from its start to its return, has been given that fold:
\* no call is evaluated against a state older than the persisted events.
C14_HandleSeesFoldOfPersisted ==
    \A id \in Entities :
        LET f == fold(None, log[id])
        IN  /\ f.ret.tag = "Ok"
            /\ state[id] = f.ret.val
            /\ inflight[id].pc # "idle" =>
                  /\ inflight[id].log = log[id]
                  /\ inflight[id].state = f.ret.val
            /\ (Dispatched(id) /\ inflight[id].state.tag = "Some") =>
                  inflight[id].calls[1].args[1] = f.ret.val.val

\* A handle call started after an event was folded is suspended, holding the
\* state that event produced and not the one before it.
C14_Witness ==
    /\ last.op = "apply"
    /\ last.id = "a1"
    /\ last.ret.tag = "Ok"
    /\ last.state.tag = "Some"
    /\ last.ret.val # last.state
    /\ Len(log["a1"]) = 2
    /\ inflight["a1"].pc = "awaiting"
    /\ inflight["a1"].state = last.ret.val


\* The event sequences of one to MaxLog events.
EventSeqs == UNION {[1..n -> Events] : n \in 1..MaxLog}

\* What the implementation A returns for the k-th event of events when the
\* earlier ones succeeded: apply_first on the first event, apply_next on the
\* state of step k-1 afterwards.
RECURSIVE StepResult(_, _)
StepResult(events, k) ==
    IF k = 1
    THEN A.first[events[1]]
    ELSE A.next[<<StepResult(events, k - 1).val, events[k]>>]

\* The first k steps of events all succeed.
RECURSIVE Succeeds(_, _)
Succeeds(events, k) ==
    \/ k = 0
    \/ /\ Succeeds(events, k - 1)
       /\ StepResult(events, k).tag = "Ok"

\* The fold of events from None has invoked apply_first once, on the first
\* event, then apply_next on each later event, in order, with the state of
\* the step before, and has returned the state of the last step.
FoldShape(events) ==
    LET f == fold(None, events)
        n == Len(events)
    IN  /\ Len(f.calls) = n
        /\ f.calls[1] = [op |-> "apply_first", args |-> <<events[1]>>]
        /\ \A k \in 2..n :
              f.calls[k] = [op |-> "apply_next",
                            args |-> <<StepResult(events, k - 1).val, events[k]>>]
        /\ f.ret.tag = "Ok"
        /\ f.ret.val = Some(StepResult(events, n).val)

\* C15: for every sequence of n >= 1 events whose steps all succeed, the fold
\* from None through apply invokes apply_first exactly once, on the first
\* event, and apply_next exactly n-1 times, on the remaining events in order,
\* each with the state the previous step produced; and the events the caller
\* has folded for an entity are such a sequence, whose fold is its state.
C15_FoldInvokesFirstThenNext ==
    /\ \A events \in EventSeqs :
          Succeeds(events, Len(events)) => FoldShape(events)
    /\ \A id \in Entities :
          Len(log[id]) >= 1 =>
              /\ Succeeds(log[id], Len(log[id]))
              /\ FoldShape(log[id])
              /\ state[id] = fold(None, log[id]).ret.val

\* Two different events have been folded for one entity, the second through
\* apply_next into a state other than the first's.
C15_Witness ==
    /\ Len(log["a1"]) = 2
    /\ log["a1"][1] # log["a1"][2]
    /\ last.op = "apply"
    /\ last.id = "a1"
    /\ last.calls[1].op = "apply_next"
    /\ last.ret.tag = "Ok"
    /\ last.ret.val # last.state
    /\ state["a1"] = last.ret.val


\* C16: in the load-fold-handle cycle, where every fold step succeeds, a
\* dispatched handle call has invoked handle_first if and only if the entity
\* has no persisted event, and handle_next if and only if it has at least
\* one; the state given to handle_next is the fold of all its persisted
\* events from None.
C16_VariantByPersistedEvents ==
    \A id \in Entities :
        Dispatched(id) =>
            LET c == inflight[id].calls
                f == fold(None, log[id])
            IN  /\ Len(c) = 1
                /\ c[1].op \in {"handle_first", "handle_next"}
                /\ f.ret.tag = "Ok"
                /\ c[1].op = "handle_first" <=> log[id] = <<>>
                /\ c[1].op = "handle_next" <=> Len(log[id]) >= 1
                /\ c[1].op = "handle_first" =>
                      c[1].args = <<inflight[id].cmd>>
                /\ c[1].op = "handle_next" =>
                      /\ f.ret.val.tag = "Some"
                      /\ c[1].args = <<f.ret.val.val, inflight[id].cmd>>

\* One entity without a persisted event has a call dispatched to
\* handle_first while the other, with two persisted events whose fold is s2,
\* has one dispatched to handle_next.
C16_Witness ==
    /\ log["a1"] = <<>>
    /\ Dispatched("a1")
    /\ inflight["a1"].calls[1].op = "handle_first"
    /\ Len(log["a2"]) = 2
    /\ Dispatched("a2")
    /\ inflight["a2"].calls[1].op = "handle_next"
    /\ inflight["a2"].calls[1].args[1] = "s2"
    /\ state["a2"] = Some("s2")

====
